---- MODULE Spec2Model ----
(***************************************************************************)
(* A model of pywiring/i2c.py: the PCF8574IO port, an 8-bit I2C GPIO       *)
(* expander driven through a software direction mask (_dirmask) and a      *)
(* write shadow (_shadow).                                                 *)
(*                                                                         *)
(* One state of the model is one moment between two calls on a constructed *)
(* port.  Besides the object's fields it records the last call: its name   *)
(* (op), its arguments (args), the fields at its entry (entry), the bus    *)
(* transactions it issued (bus), what it returned (ret) and the exception  *)
(* it raised (raised).                                                     *)
(***************************************************************************)
EXTENDS Integers, Sequences, FiniteSets

VARIABLES
    address,    \* self.address
    _dirmask,   \* self._dirmask: bit i = 1, pin i is an input
    _shadow,    \* self._shadow
    op,         \* name of the last call
    args,       \* its arguments
    entry,      \* _dirmask and _shadow when it was entered
    bus,        \* the read_byte / write_byte transactions it issued, in order
    ret,        \* its return value
    raised,     \* the exception it raised, "none" when it returned
    script,     \* steps of the scenario performed since construction
    written     \* the byte most recently passed to write_byte, -1 before any

vars == <<address, _dirmask, _shadow, op, args, entry, bus, ret, raised, script,
          written>>

----------------------------------------------------------------------------
(* Bounds of the model and sampled inputs.                                 *)

\* largest pin index a caller passes (pins are drawn up to it)
MaxPinArg == 8
\* largest number of entries of a bulk call
MaxBulk == 2

number_of_pins == 8

\* in-range pins the callers use
SampledPins == {0, 3}
PinArgs == {p \in -1 .. MaxPinArg : p \in SampledPins \/ p < 0 \/ p >= number_of_pins}

\* line states and latch values of the chip: 0x00, 0x55, 0xAA, 0xFF
ByteSamples == {0, 85, 170, 255}
\* values passed to write() and analog_write()
ValueArgs == {-1, 0, 1, 170, 255, 256 + 85}
Addresses == {32, 39}

----------------------------------------------------------------------------
(* 8-bit arithmetic.                                                       *)

Bit(x, i) == (x \div (2 ^ i)) % 2

RECURSIVE BitAnd(_, _)
\* x & y on non-negative integers
BitAnd(x, y) ==
    IF x = 0 \/ y = 0 THEN 0
    ELSE (x % 2) * (y % 2) + 2 * BitAnd(x \div 2, y \div 2)

RECURSIVE BitOr(_, _)
\* x | y on non-negative integers
BitOr(x, y) ==
    IF x = 0 THEN y
    ELSE IF y = 0 THEN x
    ELSE (IF x % 2 = 1 \/ y % 2 = 1 THEN 1 ELSE 0) + 2 * BitOr(x \div 2, y \div 2)

\* uint8() that keeps every bit of x
uint8_nowrap(x) == x

\* numpy.uint8(x) where the conversion wraps
uint8(x) == x % 256

\* ~v of a numpy.uint8 v
Invert8(v) == 255 - v

\* uint8(x) of a Python integer x is out of bounds
OutOfBounds(x) == x < 0 \/ x > 255

\* uint8(1 << pin) is out of bounds
ShiftOutOfBounds(pin) == pin >= 0 /\ OutOfBounds(2 ^ pin)

----------------------------------------------------------------------------
(* Python values.                                                          *)

PyNone == [type |-> "None", b |-> FALSE, n |-> 0]
PyBool(v) == [type |-> "bool", b |-> v, n |-> 0]
PyInt(v) == [type |-> "int", b |-> FALSE, n |-> v]
PyDict == [type |-> "dict", b |-> FALSE, n |-> 0]
\* a returned value: a scalar, or a dict (val = PyDict) with its items
Returned(scalar, d) == [val |-> scalar, items |-> d]
NoItems == [p \in {} |-> PyNone]
\* truth value of a bool or None
Truthy(v) == v.type = "bool" /\ v.b

NoArgs == [pin |-> 0, flag |-> FALSE, localonly |-> FALSE,
           pins |-> <<>>, items |-> <<>>, value |-> 0]

\* what the environment does during one call: the I2C transaction succeeds
\* or fails (ok), the byte the chip returns on a read (its latch, echoed, or
\* a sampled line state), and whether this numpy rejects an out-of-bounds
\* Python integer with OverflowError (strict) or wraps it
ReadEnvs(s) ==
    [ok : {TRUE}, byte : ByteSamples \cup {s._shadow}, strict : {FALSE}]
        \cup [ok : {FALSE}, byte : {0}, strict : {FALSE}]
WriteEnvs(oob) ==
    [ok : BOOLEAN, byte : {0}, strict : IF oob THEN BOOLEAN ELSE {FALSE}]

\* the object at the entry of a call
self == [_dirmask |-> _dirmask, _shadow |-> _shadow, bus |-> <<>>,
         raised |-> "none", ret |-> Returned(PyNone, NoItems)]

Raise(s, exc) == [s EXCEPT !.raised = exc, !.ret = Returned(PyNone, NoItems)]

\* read_byte() that tries once more when the transaction fails
read_byte_retry(s, env) ==
    LET t == [kind |-> "read_byte", address |-> address,
              byte |-> IF env.ok THEN env.byte ELSE 0,
              dirmask |-> s._dirmask, ok |-> env.ok]
        s1 == [s EXCEPT !.bus = Append(@, t)]
    IN  IF env.ok THEN s1
        ELSE Raise([s1 EXCEPT !.bus = Append(@, t)], "IOError")

\* self._bus.read_byte(self.address)
read_byte(s, env) ==
    LET t == [kind |-> "read_byte", address |-> address,
              byte |-> IF env.ok THEN env.byte ELSE 0,
              dirmask |-> s._dirmask, ok |-> env.ok]
        s1 == [s EXCEPT !.bus = Append(@, t)]
    IN  IF env.ok THEN s1 ELSE Raise(s1, "IOError")

\* self._bus.write_byte(self.address, byte)
write_byte(s, byte, env) ==
    LET t == [kind |-> "write_byte", address |-> address, byte |-> byte,
              dirmask |-> s._dirmask, ok |-> env.ok]
        s1 == [s EXCEPT !.bus = Append(@, t)]
    IN  IF env.ok THEN s1 ELSE Raise(s1, "IOError")

----------------------------------------------------------------------------
(* The methods of PCF8574IO, as functions of the object s at entry.        *)

\* write() that stores and sends value without clearing the input bits
write_unmasked(s, value, env) ==
    IF OutOfBounds(value) /\ env.strict
    THEN Raise(s, "OverflowError")
    ELSE LET s1 == [s EXCEPT !._shadow = value % 256]
         IN  write_byte(s1, s1._shadow, env)

\* write() that masks with the direction mask instead of its complement
write_wrongmask(s, value, env) ==
    IF OutOfBounds(value) /\ env.strict
    THEN Raise(s, "OverflowError")
    ELSE LET s1 == [s EXCEPT !._shadow =
                        BitAnd(value % 65536, uint8(s._dirmask))]
         IN  write_byte(s1, s1._shadow, env)

\* write() that sends value as given and keeps the masked value in _shadow
write_sendvalue(s, value, env) ==
    IF OutOfBounds(value) /\ env.strict
    THEN Raise(s, "OverflowError")
    ELSE LET s1 == [s EXCEPT !._shadow =
                        BitAnd(value % 65536, Invert8(uint8(s._dirmask)))]
         IN  write_byte(s1, value % 256, env)

\* def write(self, value)
write(s, value, env) ==
    IF OutOfBounds(value) /\ env.strict
    THEN Raise(s, "OverflowError")
    ELSE \* value & ~uint8(self._dirmask), value widened to 16 bits when
         \* it does not fit 8
         LET s1 == [s EXCEPT !._shadow =
                        BitAnd(value % 65536, Invert8(uint8(s._dirmask)))]
         IN  write_byte(s1, s1._shadow, env)

\* _poweroff_inputs() that does nothing
_poweroff_inputs_skipped(s, env) == s

\* def _poweroff_inputs(self)
_poweroff_inputs(s, env) == write(s, s._shadow, env)

\* pin_mode() with the two branches on input swapped
pin_mode_inverted(s, pin, input, localonly, env) ==
    IF pin < 0
    THEN Raise(s, "ValueError")
    ELSE IF ShiftOutOfBounds(pin) /\ env.strict
    THEN Raise(s, "OverflowError")
    ELSE LET m == uint8(2 ^ pin)
             s1 == [s EXCEPT !._dirmask =
                        IF input THEN BitAnd(@, Invert8(m)) ELSE BitOr(@, m)]
         IN  IF localonly THEN s1 ELSE _poweroff_inputs(s1, env)

\* pin_mode() whose output branch also sets the pin's shadow bit
pin_mode_drivehigh(s, pin, input, localonly, env) ==
    IF pin < 0
    THEN Raise(s, "ValueError")
    ELSE IF ShiftOutOfBounds(pin) /\ env.strict
    THEN Raise(s, "OverflowError")
    ELSE LET m == uint8(2 ^ pin)
             s1 == IF input
                   THEN [s EXCEPT !._dirmask = BitOr(@, m)]
                   ELSE [s EXCEPT !._dirmask = BitAnd(@, Invert8(m)),
                                  !._shadow = BitOr(@, m)]
         IN  IF localonly THEN s1 ELSE _poweroff_inputs(s1, env)

\* pin_mode() that synchronizes whatever localonly says
pin_mode_alwayssync(s, pin, input, localonly, env) ==
    IF pin < 0
    THEN Raise(s, "ValueError")
    ELSE IF ShiftOutOfBounds(pin) /\ env.strict
    THEN Raise(s, "OverflowError")
    ELSE LET m == uint8(2 ^ pin)
             s1 == [s EXCEPT !._dirmask =
                        IF input THEN BitOr(@, m) ELSE BitAnd(@, Invert8(m))]
         IN  _poweroff_inputs(s1, env)

\* def pin_mode(self, pin, input, pullup, pulldown, localonly)
pin_mode(s, pin, input, localonly, env) ==
    IF pin < 0
    THEN Raise(s, "ValueError")          \* 1 << pin: negative shift count
    ELSE IF ShiftOutOfBounds(pin) /\ env.strict
    THEN Raise(s, "OverflowError")       \* uint8(1 << pin)
    ELSE LET m == uint8(2 ^ pin)
             s1 == [s EXCEPT !._dirmask =
                        IF input THEN BitOr(@, m) ELSE BitAnd(@, Invert8(m))]
         IN  IF localonly THEN s1 ELSE _poweroff_inputs(s1, env)

\* port_mode() with the two masks swapped
port_mode_swapped(s, input, env) ==
    _poweroff_inputs([s EXCEPT !._dirmask = IF input THEN uint8(0) ELSE uint8(255)],
                     env)

\* def port_mode(self, input, pullup, pulldown)
port_mode(s, input, env) ==
    _poweroff_inputs([s EXCEPT !._dirmask = IF input THEN uint8(255) ELSE uint8(0)],
                     env)

RECURSIVE pin_mode_loop_sync(_, _, _)
\* the loop of pin_mode_bulk calling pin_mode without localonly=True
pin_mode_loop_sync(s, pins, env) ==
    IF pins = <<>> \/ s.raised # "none" THEN s
    ELSE pin_mode_loop_sync(pin_mode(s, Head(pins)[1], Head(pins)[2], FALSE, env),
                            Tail(pins), env)

RECURSIVE pin_mode_loop(_, _, _)
\* for pin in pins: self.pin_mode(pin, pins[pin][0], localonly=True)
pin_mode_loop(s, pins, env) ==
    IF pins = <<>> \/ s.raised # "none" THEN s
    ELSE pin_mode_loop(pin_mode(s, Head(pins)[1], Head(pins)[2], TRUE, env),
                       Tail(pins), env)

\* pin_mode_bulk() without its final synchronization
pin_mode_bulk_nosync(s, pins, env) == pin_mode_loop(s, pins, env)

\* def pin_mode_bulk(self, pins)
pin_mode_bulk(s, pins, env) ==
    LET s1 == pin_mode_loop(s, pins, env)
    IN  IF s1.raised # "none" THEN s1 ELSE _poweroff_inputs(s1, env)

\* read() that returns the bus byte as it is
read_unmasked(s, env) ==
    LET s1 == read_byte(s, env)
    IN  IF s1.raised # "none" THEN s1
        ELSE [s1 EXCEPT !.ret = Returned(PyInt(uint8(env.byte)), NoItems)]

\* def read(self)
read(s, env) ==
    LET s1 == read_byte(s, env)
    IN  IF s1.raised # "none" THEN s1
        ELSE [s1 EXCEPT !.ret =
                 Returned(PyInt(BitAnd(s1._dirmask, uint8(env.byte))), NoItems)]

\* digital_read_bulk() that takes its bits from the bus byte, not from read()
digital_read_bulk_raw(s, pins, env) ==
    LET s1 == read_byte(s, env)
        tor == [pin \in {pins[i] : i \in DOMAIN pins} |->
                   IF 0 <= pin /\ pin < number_of_pins
                   THEN PyBool(BitAnd(env.byte \div (2 ^ pin), 1) # 0)
                   ELSE PyNone]
    IN  IF s1.raised # "none" THEN s1
        ELSE [s1 EXCEPT !.ret = Returned(PyDict, tor)]

\* digital_read_bulk() that reads the port once per requested pin
digital_read_bulk_perpin(s, pins, env) ==
    LET s1 == read(s, env)
        portstate == s1.ret.val.n
        tor == [pin \in {pins[i] : i \in DOMAIN pins} |->
                   IF 0 <= pin /\ pin < number_of_pins
                   THEN PyBool(BitAnd(portstate \div (2 ^ pin), 1) # 0)
                   ELSE PyNone]
        s2 == [s1 EXCEPT !.bus = [i \in 1 .. Len(pins) |-> s1.bus[1]]]
    IN  IF s2.raised # "none" THEN s2
        ELSE [s2 EXCEPT !.ret = Returned(PyDict, tor)]

\* def digital_read_bulk(self, *pins)
digital_read_bulk(s, pins, env) ==
    LET s1 == read(s, env)
        portstate == s1.ret.val.n
        tor == [pin \in {pins[i] : i \in DOMAIN pins} |->
                   IF 0 <= pin /\ pin < number_of_pins
                   THEN PyBool(BitAnd(portstate \div (2 ^ pin), 1) # 0)
                   ELSE PyNone]
    IN  IF s1.raised # "none" THEN s1
        ELSE [s1 EXCEPT !.ret = Returned(PyDict, tor)]

\* def digital_read(self, pin)
digital_read(s, pin, env) ==
    LET s1 == digital_read_bulk(s, <<pin>>, env)
    IN  IF s1.raised # "none" THEN s1
        ELSE [s1 EXCEPT !.ret = Returned(s1.ret.items[pin], NoItems)]

RECURSIVE write_loop_setonly(_, _)
\* the loop of digital_write_bulk without its clearing branch
write_loop_setonly(shadow, pins) ==
    IF pins = <<>> THEN shadow
    ELSE LET pin == Head(pins)[1]
             bpin == 2 ^ pin
         IN  write_loop_setonly(IF 0 <= pin /\ pin < number_of_pins /\ Head(pins)[2]
                                THEN BitOr(shadow, bpin)
                                ELSE shadow,
                                Tail(pins))

RECURSIVE write_loop(_, _)
\* the loop of digital_write_bulk over the local variable shadow
write_loop(shadow, pins) ==
    IF pins = <<>> THEN shadow
    ELSE LET pin == Head(pins)[1]
             bpin == 2 ^ pin
         IN  write_loop(IF 0 <= pin /\ pin < number_of_pins
                        THEN IF Head(pins)[2] THEN BitOr(shadow, bpin)
                             ELSE BitAnd(shadow, Invert8(uint8(bpin)))
                        ELSE shadow,
                        Tail(pins))

\* digital_write_bulk() that skips the write when no requested pin is in range
digital_write_bulk_skipempty(s, pins, env) ==
    IF \A i \in DOMAIN pins : ~(0 <= pins[i][1] /\ pins[i][1] < number_of_pins)
    THEN s
    ELSE write(s, write_loop(s._shadow, pins), env)

\* def digital_write_bulk(self, pins)
digital_write_bulk(s, pins, env) == write(s, write_loop(s._shadow, pins), env)

\* def digital_write(self, pin, high)
digital_write(s, pin, high, env) == digital_write_bulk(s, <<<<pin, high>>>>, env)

\* analog_read() that tests digital_read(pin) against None
analog_read_notnone(s, pin, env) ==
    LET s1 == digital_read(s, pin, env)
    IN  IF s1.raised # "none" THEN s1
        ELSE [s1 EXCEPT !.ret =
                 Returned(PyInt(IF s1.ret.val # PyNone THEN 255 ELSE 0), NoItems)]

\* def analog_read(self, pin)
analog_read(s, pin, env) ==
    LET s1 == digital_read(s, pin, env)
    IN  IF s1.raised # "none" THEN s1
        ELSE [s1 EXCEPT !.ret =
                 Returned(PyInt(IF Truthy(s1.ret.val) THEN 255 ELSE 0), NoItems)]

\* analog_write() that takes every nonzero value as high
analog_write_nonzero(s, pin, value, env) == digital_write(s, pin, value # 0, env)

\* def analog_write(self, pin, value)
analog_write(s, pin, value, env) == digital_write(s, pin, value > 0, env)

----------------------------------------------------------------------------
(* The calls a caller makes.                                               *)

\* tuples of at most n pins, as passed to digital_read_bulk(*pins)
PinTuples(n) == UNION {[1 .. k -> PinArgs] : k \in 0 .. n}

\* dicts of at most n entries pin -> flag, in the order of their keys
Mappings(n) ==
    {m \in UNION {[1 .. k -> PinArgs \X BOOLEAN] : k \in 0 .. n} :
        \A i, j \in DOMAIN m : i # j => m[i][1] # m[j][1]}

\* the scenario: port_mode(True), pin_mode(3, False), digital_write(3, True),
\* pin_mode(3, True)
ScenarioCalls ==
    << <<"port_mode", [NoArgs EXCEPT !.flag = TRUE]>>,
       <<"pin_mode", [NoArgs EXCEPT !.pin = 3, !.flag = FALSE]>>,
       <<"digital_write", [NoArgs EXCEPT !.pin = 3, !.flag = TRUE]>>,
       <<"pin_mode", [NoArgs EXCEPT !.pin = 3, !.flag = TRUE]>> >>

RECURSIVE LastWritten(_, _)
\* the byte of the last write_byte of the transactions b, or w when b has none
LastWritten(b, w) ==
    IF b = <<>> THEN w
    ELSE LastWritten(Tail(b), IF Head(b).kind = "write_byte" THEN Head(b).byte ELSE w)

\* the call (name, a) took the object from self to r
Call(name, a, r) ==
    /\ \E res \in {r} :
          /\ _dirmask' = res._dirmask
          /\ _shadow' = res._shadow
          /\ bus' = res.bus
          /\ ret' = res.ret
          /\ raised' = res.raised
          /\ script' = IF /\ script >= 0
                          /\ script < Len(ScenarioCalls)
                          /\ ScenarioCalls[script + 1] = <<name, a>>
                          /\ res.raised = "none"
                       THEN script + 1
                       ELSE -1
          /\ written' = LastWritten(res.bus, written)
    /\ op' = name
    /\ args' = a
    /\ entry' = [_dirmask |-> _dirmask, _shadow |-> _shadow]
    /\ UNCHANGED address

\* __init__ that masks the byte it reads with the fresh direction mask
Init_masked ==
    /\ address \in Addresses
    /\ _dirmask = uint8(255)
    /\ \E b \in ByteSamples :
          /\ _shadow = BitAnd(b, Invert8(uint8(255)))
          /\ bus = <<[kind |-> "read_byte", address |-> address, byte |-> b,
                      dirmask |-> uint8(255), ok |-> TRUE]>>
    /\ op = "__init__"
    /\ args = NoArgs
    /\ entry = [_dirmask |-> uint8(255), _shadow |-> 0]
    /\ ret = Returned(PyNone, NoItems)
    /\ raised = "none"
    /\ script = 0
    /\ written = -1

\* def __init__(self, bus, address): the port once constructed
Init ==
    /\ address \in Addresses
    /\ _dirmask = uint8(255)
    /\ \E b \in ByteSamples :
          /\ _shadow = b
          /\ bus = <<[kind |-> "read_byte", address |-> address, byte |-> b,
                      dirmask |-> uint8(255), ok |-> TRUE]>>
    /\ op = "__init__"
    /\ args = NoArgs
    /\ entry = [_dirmask |-> uint8(255), _shadow |-> 0]
    /\ ret = Returned(PyNone, NoItems)
    /\ raised = "none"
    /\ script = 0
    /\ written = -1

\* no call is in progress: the caller makes the next one
Idle == op = "idle"

PinMode ==
    /\ Idle
    /\ \E pin \in PinArgs, input \in BOOLEAN, localonly \in BOOLEAN :
       \E env \in WriteEnvs(ShiftOutOfBounds(pin)) :
           Call("pin_mode",
                [NoArgs EXCEPT !.pin = pin, !.flag = input, !.localonly = localonly],
                pin_mode(self, pin, input, localonly, env))

PortMode ==
    /\ Idle
    /\ \E input \in BOOLEAN, env \in WriteEnvs(FALSE) :
           Call("port_mode", [NoArgs EXCEPT !.flag = input], port_mode(self, input, env))

PinModeBulk ==
    /\ Idle
    /\ \E pins \in Mappings(MaxBulk) :
       \E env \in WriteEnvs(\E i \in DOMAIN pins : ShiftOutOfBounds(pins[i][1])) :
           Call("pin_mode_bulk", [NoArgs EXCEPT !.items = pins],
                pin_mode_bulk(self, pins, env))

Read ==
    /\ Idle
    /\ \E env \in ReadEnvs(self) : Call("read", NoArgs, read(self, env))

Write ==
    /\ Idle
    /\ \E value \in ValueArgs :
       \E env \in WriteEnvs(OutOfBounds(value)) :
           Call("write", [NoArgs EXCEPT !.value = value], write(self, value, env))

DigitalRead ==
    /\ Idle
    /\ \E pin \in PinArgs, env \in ReadEnvs(self) :
           Call("digital_read", [NoArgs EXCEPT !.pin = pin], digital_read(self, pin, env))

DigitalReadBulk ==
    /\ Idle
    /\ \E pins \in PinTuples(MaxBulk), env \in ReadEnvs(self) :
           Call("digital_read_bulk", [NoArgs EXCEPT !.pins = pins],
                digital_read_bulk(self, pins, env))

DigitalWrite ==
    /\ Idle
    /\ \E pin \in PinArgs, high \in BOOLEAN, env \in WriteEnvs(FALSE) :
           Call("digital_write", [NoArgs EXCEPT !.pin = pin, !.flag = high],
                digital_write(self, pin, high, env))

DigitalWriteBulk ==
    /\ Idle
    /\ \E pins \in Mappings(MaxBulk), env \in WriteEnvs(FALSE) :
           Call("digital_write_bulk", [NoArgs EXCEPT !.items = pins],
                digital_write_bulk(self, pins, env))

AnalogRead ==
    /\ Idle
    /\ \E pin \in PinArgs, env \in ReadEnvs(self) :
           Call("analog_read", [NoArgs EXCEPT !.pin = pin], analog_read(self, pin, env))

AnalogWrite ==
    /\ Idle
    /\ \E pin \in PinArgs, value \in ValueArgs, env \in WriteEnvs(FALSE) :
           Call("analog_write", [NoArgs EXCEPT !.pin = pin, !.value = value],
                analog_write(self, pin, value, env))

\* the caller has taken the result of the last call: its record is dropped,
\* the object is as the call left it
Return ==
    /\ ~Idle
    /\ op' = "idle"
    /\ args' = NoArgs
    /\ entry' = [_dirmask |-> _dirmask, _shadow |-> _shadow]
    /\ bus' = <<>>
    /\ ret' = Returned(PyNone, NoItems)
    /\ raised' = "none"
    /\ UNCHANGED <<address, _dirmask, _shadow, script, written>>

Next ==
    \/ Return
    \/ PinMode
    \/ PortMode
    \/ PinModeBulk
    \/ Read
    \/ Write
    \/ DigitalRead
    \/ DigitalReadBulk
    \/ DigitalWrite
    \/ DigitalWriteBulk
    \/ AnalogRead
    \/ AnalogWrite

Spec == Init /\ [][Next]_vars

----------------------------------------------------------------------------
(* Vocabulary of the properties.                                           *)

InRange(pin) == 0 <= pin /\ pin < number_of_pins
\* no bit is set in both sh and dm
Masked(dm, sh) == \A p \in 0 .. number_of_pins - 1 : ~(Bit(sh, p) = 1 /\ Bit(dm, p) = 1)
Writes == {i \in DOMAIN bus : bus[i].kind = "write_byte"}
Reads == {i \in DOMAIN bus : bus[i].kind = "read_byte"}
\* the last call raised before it reached its bus transaction
RaisedEarly == raised \in {"ValueError", "OverflowError"}
\* the last call issued exactly one transaction, of this kind
OneTransaction(kind) == Len(bus) = 1 /\ bus[1].kind = kind

----------------------------------------------------------------------------
(* C1 as stated: shadow & directionMask == 0 in every reachable state,     *)
(* from the end of construction onward.                                    *)
C1_Original == Masked(_dirmask, _shadow)

(* C1, amended: shadow & directionMask == 0 holds after every call that    *)
(* issues a bus write, and once it holds every later call keeps it, except *)
(* pin_mode with localonly=True and a pin_mode_bulk that raises before its *)
(* synchronization.  (It need not hold at the end of construction.)        *)
C1_MaskedAfterSync ==
    /\ Writes # {} => Masked(_dirmask, _shadow)
    /\ ( /\ op # "__init__"
         /\ ~(op = "pin_mode" /\ args.localonly)
         /\ ~(op = "pin_mode_bulk" /\ RaisedEarly)
         /\ Masked(entry._dirmask, entry._shadow) )
       => Masked(_dirmask, _shadow)

\* a synchronizing pin_mode entered with a stale shadow bit has cleared it
C1_Witness ==
    /\ op = "pin_mode" /\ ~args.localonly /\ Writes # {}
    /\ ~Masked(entry._dirmask, entry._shadow)
    /\ Masked(_dirmask, _shadow)

(* C2: after every pin_mode (localonly=False) or port_mode call that       *)
(* returns, whatever calls came before, shadow & directionMask == 0.       *)
C2_MaskedAfterModeChange ==
    (op \in {"pin_mode", "port_mode"} /\ ~args.localonly /\ raised = "none")
        => Masked(_dirmask, _shadow)

\* port_mode(True) on a port whose outputs were driven
C2_Witness ==
    /\ op = "port_mode" /\ args.flag /\ raised = "none"
    /\ entry._dirmask # 255 /\ entry._shadow # 0
    /\ _shadow = 0

(* C3: every byte passed to write_byte is 0 at every bit whose direction   *)
(* bit is 1 at the moment of the transmission; digital_write on an         *)
(* input-configured pin transmits 0 at that bit, for high true and false.  *)
C3_InputsNeverDriven ==
    /\ \A i \in Writes : Masked(bus[i].dirmask, bus[i].byte)
    /\ (op = "digital_write" /\ InRange(args.pin)
            /\ Bit(entry._dirmask, args.pin) = 1)
        => (OneTransaction("write_byte") /\ Bit(bus[1].byte, args.pin) = 0)

\* digital_write(pin, True) on an input pin, while other pins are driven
C3_Witness ==
    /\ op = "digital_write" /\ args.flag /\ InRange(args.pin)
    /\ Bit(entry._dirmask, args.pin) = 1
    /\ OneTransaction("write_byte") /\ bus[1].byte # 0

(* C4: read() returns the byte of its single bus read masked by the        *)
(* direction mask: output bits are 0, input bits are the bus byte's.       *)
C4_ReadMasksOutputs ==
    (op = "read" /\ raised = "none")
        => /\ OneTransaction("read_byte")
           /\ ret.val.type = "int"
           /\ ret.val.n \in 0 .. 255
           /\ \A p \in 0 .. number_of_pins - 1 :
                 Bit(ret.val.n, p) =
                    IF Bit(_dirmask, p) = 1 THEN Bit(bus[1].byte, p) ELSE 0

\* a read where the mask both hides a set output bit and passes a set input bit
C4_Witness ==
    /\ op = "read" /\ raised = "none"
    /\ \E p, q \in 0 .. number_of_pins - 1 :
          /\ Bit(_dirmask, p) = 0 /\ Bit(bus[1].byte, p) = 1 /\ Bit(ret.val.n, p) = 0
          /\ Bit(_dirmask, q) = 1 /\ Bit(bus[1].byte, q) = 1 /\ Bit(ret.val.n, q) = 1

(* C5: digital_write(pin, True) on an in-range output pin sets bit pin of  *)
(* shadow and of the transmitted byte; a digital_read(pin) made in that    *)
(* state (pin an output, its shadow bit 1) on a transport that echoes the  *)
(* written byte returns False.                                             *)
C5_OutputReadsBackFalse ==
    /\ (op = "digital_write" /\ args.flag /\ InRange(args.pin)
            /\ Bit(entry._dirmask, args.pin) = 0)
        => /\ Bit(_shadow, args.pin) = 1
           /\ OneTransaction("write_byte")
           /\ Bit(bus[1].byte, args.pin) = 1
    /\ (op = "digital_read" /\ raised = "none" /\ InRange(args.pin)
            /\ Bit(entry._dirmask, args.pin) = 0
            /\ Bit(entry._shadow, args.pin) = 1
            /\ bus[1].byte = entry._shadow)
        => ret.val = PyBool(FALSE)

\* the echoed byte has the pin's bit set and digital_read returned False
C5_Witness ==
    /\ op = "digital_read" /\ raised = "none" /\ InRange(args.pin)
    /\ Bit(entry._dirmask, args.pin) = 0
    /\ Bit(entry._shadow, args.pin) = 1
    /\ bus[1].byte = entry._shadow
    /\ ret.val = PyBool(FALSE)

(* C6: digital_read_bulk issues exactly one read_byte and no write_byte,   *)
(* however many pins are requested; when the read succeeds it returns,     *)
(* without raising, a dict that maps each requested pin in 0..7 to bit pin *)
(* of the masked read and each other requested pin to None.                *)
C6_BulkReadOnce ==
    op = "digital_read_bulk"
        => /\ OneTransaction("read_byte")
           /\ bus[1].ok
                => /\ raised = "none"
                   /\ ret.val = PyDict
                   /\ DOMAIN ret.items = {args.pins[i] : i \in DOMAIN args.pins}
                   /\ \A pin \in DOMAIN ret.items :
                         ret.items[pin] =
                            IF InRange(pin)
                            THEN PyBool(Bit(bus[1].byte, pin) = 1
                                            /\ Bit(_dirmask, pin) = 1)
                            ELSE PyNone

\* two pins requested: one out of range (None), one that reads True
C6_Witness ==
    /\ op = "digital_read_bulk" /\ Len(args.pins) = 2 /\ Len(bus) = 1
    /\ \E p, q \in DOMAIN ret.items :
          ret.items[p] = PyNone /\ ret.items[q] = PyBool(TRUE)

(* C7: digital_write_bulk issues exactly one write_byte and no read_byte,  *)
(* whatever the mapping, the empty one and one with only out-of-range pins *)
(* included.                                                               *)
C7_BulkWriteOnce ==
    op = "digital_write_bulk" => OneTransaction("write_byte")

\* a mapping of only out-of-range pins still writes once
C7_Witness ==
    /\ op = "digital_write_bulk" /\ Len(args.items) = 2
    /\ \A i \in DOMAIN args.items : ~InRange(args.items[i][1])
    /\ OneTransaction("write_byte")

(* C8: after digital_write_bulk(pins), shadow and the transmitted byte are *)
(* bit by bit: 0 where the pin is an input, the mapped value where an      *)
(* in-range pin is mapped, the previous shadow bit elsewhere; out-of-range *)
(* pins contribute nothing.                                                *)
C8_BulkWriteValue ==
    op = "digital_write_bulk"
        => /\ Len(bus) >= 1 /\ bus[1].byte = _shadow
           /\ _shadow \in 0 .. 255
           /\ _dirmask = entry._dirmask
           /\ \A p \in 0 .. number_of_pins - 1 :
                 Bit(_shadow, p) =
                    IF Bit(entry._dirmask, p) = 1 THEN 0
                    ELSE IF \E i \in DOMAIN args.items : args.items[i][1] = p
                    THEN IF \E i \in DOMAIN args.items :
                                args.items[i][1] = p /\ args.items[i][2]
                         THEN 1 ELSE 0
                    ELSE Bit(entry._shadow, p)

\* one output pin cleared, an out-of-range pin mapped to True, and an
\* unnamed output bit that keeps its 1
C8_Witness ==
    /\ op = "digital_write_bulk"
    /\ \E i, j \in DOMAIN args.items :
          /\ ~InRange(args.items[i][1]) /\ args.items[i][2]
          /\ InRange(args.items[j][1]) /\ ~args.items[j][2]
          /\ Bit(entry._dirmask, args.items[j][1]) = 0
          /\ Bit(entry._shadow, args.items[j][1]) = 1
    /\ \E p \in 0 .. number_of_pins - 1 :
          /\ \A i \in DOMAIN args.items : args.items[i][1] # p
          /\ Bit(entry._shadow, p) = 1 /\ Bit(_shadow, p) = 1

(* C9 as stated: pin_mode_bulk(pins) performs exactly one bus write, after *)
(* all direction bits are applied, of shadow_before & ~(final mask).       *)
C9_Original ==
    op = "pin_mode_bulk"
        => /\ OneTransaction("write_byte")
           /\ bus[1].dirmask = _dirmask
           /\ \A p \in 0 .. number_of_pins - 1 :
                 Bit(bus[1].byte, p) =
                    IF Bit(_dirmask, p) = 1 THEN 0 ELSE Bit(entry._shadow, p)

(* C9, amended: a pin_mode_bulk(pins) whose loop applies every entry       *)
(* performs exactly one bus write, after all direction bits are applied,   *)
(* of shadow_before & ~(final mask); a pin_mode_bulk that raises at an     *)
(* entry (ValueError for a negative pin, OverflowError where uint8 rejects *)
(* 1 << pin for pin >= 8) performs no bus write and leaves shadow as it    *)
(* was.  With every pin in 0..7 the loop always applies every entry.       *)
C9_BulkModeOneSync ==
    op = "pin_mode_bulk"
        => /\ RaisedEarly
                => /\ bus = <<>>
                   /\ _shadow = entry._shadow
                   /\ \E i \in DOMAIN args.items : ~InRange(args.items[i][1])
           /\ ~RaisedEarly
                => /\ OneTransaction("write_byte")
                   /\ bus[1].dirmask = _dirmask
                   /\ \A p \in 0 .. number_of_pins - 1 :
                         Bit(bus[1].byte, p) =
                            IF Bit(_dirmask, p) = 1 THEN 0
                            ELSE Bit(entry._shadow, p)

\* two pins made inputs by one call; the single write clears a driven bit
C9_Witness ==
    /\ op = "pin_mode_bulk" /\ Len(args.items) = 2 /\ raised = "none"
    /\ \A i \in DOMAIN args.items : InRange(args.items[i][1]) /\ args.items[i][2]
    /\ OneTransaction("write_byte")
    /\ bus[1].byte # entry._shadow

(* C10: from a freshly opened port: port_mode(True) leaves shadow 0x00;    *)
(* then pin_mode(3, False) clears direction bit 3, keeps shadow &          *)
(* directionMask == 0 and shadow bit 3 at 0; then digital_write(3, True)   *)
(* makes shadow 0x08 and sends 0x08; then pin_mode(3, True) sends 0x00 and *)
(* clears shadow bit 3.                                                    *)
C10_Scenario ==
    /\ (script = 1 /\ op = "port_mode") => _shadow = 0
    /\ (script = 2 /\ op = "pin_mode")
        => /\ Bit(_dirmask, 3) = 0
           /\ Masked(_dirmask, _shadow)
           /\ Bit(_shadow, 3) = 0
    /\ (script = 3 /\ op = "digital_write")
        => /\ _shadow = 8
           /\ OneTransaction("write_byte") /\ bus[1].byte = 8
    /\ (script = 4 /\ op = "pin_mode")
        => /\ Writes # {}
           /\ \A i \in Writes : bus[i].byte = 0
           /\ Bit(_shadow, 3) = 0

\* the end of the scenario, the last write having cleared the driven bit
C10_Witness ==
    /\ script = 4 /\ op = "pin_mode"
    /\ entry._shadow = 8 /\ _shadow = 0

(* C11: port_mode(input) sets the whole direction mask in one step (0xFF   *)
(* for input, 0x00 otherwise) and then synchronizes with exactly one bus   *)
(* write: port_mode(True) leaves shadow 0 and sends 0x00; port_mode(False) *)
(* leaves shadow unchanged and sends it.                                   *)
C11_PortMode ==
    op = "port_mode"
        => /\ _dirmask = IF args.flag THEN 255 ELSE 0
           /\ OneTransaction("write_byte")
           /\ bus[1].dirmask = _dirmask
           /\ bus[1].byte = _shadow
           /\ _shadow = IF args.flag THEN 0 ELSE entry._shadow

\* port_mode(False) on a port whose shadow is not 0: the shadow is sent as is
C11_Witness ==
    /\ op = "port_mode" /\ ~args.flag
    /\ entry._dirmask = 255 /\ entry._shadow # 0
    /\ OneTransaction("write_byte") /\ bus[1].byte = entry._shadow

(* C12: once a bus write has been issued, shadow equals the byte most      *)
(* recently passed to write_byte, whatever calls followed and also when    *)
(* that write_byte failed.                                                 *)
C12_ShadowIsLastWritten == written # -1 => _shadow = written

\* a failed write_byte of a new value
C12_Witness ==
    /\ op = "write" /\ raised = "IOError"
    /\ _shadow # entry._shadow
    /\ written = _shadow

(* C13: analog_read(pin), when it returns, returns 255 or 0: 255 exactly   *)
(* when digital_read(pin) is True, that is when pin is in range, an input, *)
(* and its bit of the bus byte is 1; 0 for an output pin and for a pin out *)
(* of range.                                                               *)
C13_AnalogRead ==
    op = "analog_read"
        => /\ OneTransaction("read_byte")
           /\ bus[1].ok
                => /\ raised = "none"
                   /\ ret.val \in {PyInt(0), PyInt(255)}
                   /\ ret.val = PyInt(255)
                        <=> /\ InRange(args.pin)
                            /\ Bit(_dirmask, args.pin) = 1
                            /\ Bit(bus[1].byte, args.pin) = 1

\* analog_read of an out-of-range pin while every line is high
C13_Witness ==
    /\ op = "analog_read" /\ raised = "none" /\ ~InRange(args.pin)
    /\ bus[1].byte = 255 /\ _dirmask = 255
    /\ ret.val = PyInt(0)

\* analog_write(pin, value) did what digital_write(pin, high) does
AnalogWriteAs(high) ==
    /\ OneTransaction("write_byte")
    /\ bus[1].byte = _shadow
    /\ _dirmask = entry._dirmask
    /\ \A p \in 0 .. number_of_pins - 1 :
          Bit(_shadow, p) =
             IF Bit(entry._dirmask, p) = 1 THEN 0
             ELSE IF p = args.pin THEN (IF high THEN 1 ELSE 0)
             ELSE Bit(entry._shadow, p)

(* C14 as stated: analog_write(pin, value) acts as digital_write(pin,      *)
(* value > 0), and every nonzero value is taken as high.                   *)
C14_Original ==
    op = "analog_write"
        => AnalogWriteAs(args.value > 0) /\ AnalogWriteAs(args.value # 0)

(* C14, amended: analog_write(pin, value) acts on shadow and on the bus as *)
(* digital_write(pin, value > 0): every positive value is taken as high,   *)
(* zero and every negative value as low.                                   *)
C14_PositiveIsHigh ==
    op = "analog_write" => AnalogWriteAs(args.value > 0)

\* a negative value drives a high output pin low
C14_Witness ==
    /\ op = "analog_write" /\ args.value < 0 /\ InRange(args.pin)
    /\ Bit(entry._dirmask, args.pin) = 0
    /\ Bit(entry._shadow, args.pin) = 1
    /\ Bit(_shadow, args.pin) = 0

(* C15: a call attempts at most one bus transaction; when the transaction  *)
(* fails the call raises at once, with no retry and no further             *)
(* transaction.                                                            *)
C15_NoRetry ==
    /\ Len(bus) <= 1
    /\ \A i \in DOMAIN bus :
          ~bus[i].ok => /\ raised = "IOError"
                        /\ i = Len(bus)
                        /\ ret = Returned(PyNone, NoItems)
    /\ raised = "IOError" => \E i \in DOMAIN bus : ~bus[i].ok

\* a bulk read whose only transaction failed
C15_Witness ==
    /\ op = "digital_read_bulk" /\ Len(args.pins) = 2
    /\ raised = "IOError"
    /\ Len(bus) = 1 /\ ~bus[1].ok

\* the orders in which the entries of a dict can be taken
Orders(pins) ==
    {[i \in DOMAIN pins |-> pins[f[i]]] :
        f \in {g \in [DOMAIN pins -> DOMAIN pins] :
                  \A i, j \in DOMAIN pins : i # j => g[i] # g[j]}}

RECURSIVE EachPinMode(_, _, _)
\* pin_mode(pin, input) with immediate synchronization, once per entry
EachPinMode(s, pins, env) ==
    IF pins = <<>> THEN s
    ELSE EachPinMode(pin_mode([s EXCEPT !.bus = <<>>],
                              Head(pins)[1], Head(pins)[2], FALSE, env),
                     Tail(pins), env)

\* the last pin_mode_bulk, of a non-empty dict, returned, and so does every
\* pin_mode of its entries; taken one by one in any order from the same
\* state they end in the same mask, shadow and transmitted byte
SameAsOneByOne ==
    LET s0 == [_dirmask |-> entry._dirmask, _shadow |-> entry._shadow,
               bus |-> <<>>, raised |-> "none",
               ret |-> Returned(PyNone, NoItems)]
        env == [ok |-> TRUE, byte |-> 0, strict |-> FALSE]
    IN  \A order \in Orders(args.items) :
            LET r == EachPinMode(s0, order, env)
            IN  /\ r.raised = "none"
                /\ r._dirmask = _dirmask
                /\ r._shadow = _shadow
                /\ LastWritten(r.bus, -1) = written

(* C16 as stated: from any reachable state, pin_mode_bulk(pins) ends in    *)
(* the same directionMask, shadow and last transmitted byte as pin_mode    *)
(* with immediate synchronization once per entry, in any order (stated     *)
(* here for the non-empty dicts whose calls return).                       *)
C16_Original ==
    (op = "pin_mode_bulk" /\ raised = "none" /\ args.items # <<>>)
        => SameAsOneByOne

(* C16, amended: from any reachable state in which shadow & directionMask  *)
(* == 0, for a non-empty dict of distinct pins whose calls return,         *)
(* pin_mode_bulk(pins) ends in the same directionMask, shadow and last     *)
(* transmitted byte as pin_mode with immediate synchronization once per    *)
(* entry, in any order.                                                    *)
C16_BulkAsOneByOne ==
    (op = "pin_mode_bulk" /\ raised = "none" /\ args.items # <<>>
        /\ Masked(entry._dirmask, entry._shadow))
        => SameAsOneByOne

\* two pins at once, one of them a driven output turned into an input
C16_Witness ==
    /\ op = "pin_mode_bulk" /\ raised = "none" /\ Len(args.items) = 2
    /\ Masked(entry._dirmask, entry._shadow)
    /\ \A i \in DOMAIN args.items : InRange(args.items[i][1])
    /\ _dirmask # entry._dirmask
    /\ _shadow # entry._shadow

\* the last call was pin_mode(pin, False), synchronizing, on an in-range pin
\* that was an input, and it reached its bus write
InputMadeOutput ==
    /\ op = "pin_mode" /\ ~args.flag /\ ~args.localonly
    /\ InRange(args.pin)
    /\ Bit(entry._dirmask, args.pin) = 1
    /\ bus # <<>>

(* C17 as stated: in every reachable state, the byte transmitted by        *)
(* pin_mode(pin, input=False) on an input-configured pin has bit pin 0.    *)
C17_Original ==
    InputMadeOutput => Bit(bus[1].byte, args.pin) = 0

(* C17, amended: the byte transmitted by pin_mode(pin, input=False) on an  *)
(* input-configured pin carries at bit pin the shadow bit held at entry;   *)
(* it is 0 whenever shadow & directionMask == 0 held at entry, and the     *)
(* pin then goes high only after a later write sets it.                    *)
C17_OutputStartsAtShadowBit ==
    InputMadeOutput
        => /\ OneTransaction("write_byte")
           /\ Bit(bus[1].byte, args.pin) = Bit(entry._shadow, args.pin)
           /\ Bit(_shadow, args.pin) = Bit(entry._shadow, args.pin)
           /\ Masked(entry._dirmask, entry._shadow)
                => Bit(bus[1].byte, args.pin) = 0

\* an input made an output while another pin is driven high
C17_Witness ==
    /\ InputMadeOutput
    /\ Masked(entry._dirmask, entry._shadow)
    /\ entry._shadow # 0
    /\ Bit(bus[1].byte, args.pin) = 0
    /\ bus[1].byte # 0

ReadCalls == {"read", "digital_read", "digital_read_bulk", "analog_read"}
WriteCalls == {"write", "digital_write", "digital_write_bulk", "analog_write"}

\* what the last call left alone
FrameOfLastCall ==
    /\ op \in ReadCalls
        => /\ _dirmask = entry._dirmask
           /\ _shadow = entry._shadow
           /\ Writes = {}
    /\ op \in WriteCalls
        => /\ _dirmask = entry._dirmask
           /\ Reads = {}
    /\ (op = "pin_mode" /\ args.localonly)
        => /\ _shadow = entry._shadow
           /\ bus = <<>>
           /\ \A p \in 0 .. number_of_pins - 1 :
                 p # args.pin => Bit(_dirmask, p) = Bit(entry._dirmask, p)
    /\ \A i \in DOMAIN bus : bus[i].address = address

(* C18: the read calls leave directionMask and shadow unchanged and issue  *)
(* no bus write; the write calls leave directionMask unchanged and issue   *)
(* no bus read; pin_mode with localonly=True changes only bit pin of       *)
(* directionMask, leaves shadow unchanged and issues no bus transaction;   *)
(* no step changes address.                                                *)
C18_Frame == [](FrameOfLastCall) /\ [][address' = address]_vars

\* a localonly pin_mode that changed the mask
C18_Witness ==
    /\ op = "pin_mode" /\ args.localonly
    /\ _dirmask # entry._dirmask
    /\ bus = <<>>

(* C19: construction performs exactly one bus read and no bus write and    *)
(* ends with directionMask 0xFF and shadow equal to the byte the chip      *)
(* returned, unmasked; nothing has been passed to write_byte.              *)
C19_Construction ==
    op = "__init__"
        => /\ OneTransaction("read_byte") /\ bus[1].ok
           /\ _dirmask = 255
           /\ _shadow = bus[1].byte
           /\ written = -1

\* a port constructed on a chip whose lines are all high
C19_Witness ==
    /\ op = "__init__"
    /\ bus[1].byte = 255 /\ _shadow = 255 /\ _dirmask = 255

(* C20: directionMask, shadow and every byte passed to write_byte are in   *)
(* 0..255 in every state, also after write(value) with value above 255 or  *)
(* below 0 and pin_mode with a pin index of 8 or more.                     *)
C20_EightBit ==
    /\ _dirmask \in 0 .. 255
    /\ _shadow \in 0 .. 255
    /\ \A i \in Writes : bus[i].byte \in 0 .. 255

\* write(value) with value above 255 that returned
C20_Witness ==
    /\ op = "write" /\ args.value > 255 /\ raised = "none"
    /\ _shadow # 0
    /\ OneTransaction("write_byte") /\ bus[1].byte = _shadow

====
